---- MODULE Spec2Model ----
(***************************************************************************)
(* Model of src/app.py: the SOFC heating-ramp advisory controller.         *)
(*                                                                         *)
(* One run of the script is one step of the machine: the sidebar section   *)
(* diffs the limit widgets against last_config and prepends change records *)
(* to config_log, and, when the form button was pressed, the submission    *)
(* handler calls calculate_next_step on (new entry, history[-1]), shows    *)
(* the result and appends the entry to the 20-entry history.               *)
(*                                                                         *)
(* Units.  Python floats are modelled by exact rationals <<n, d>>, d > 0,  *)
(* kept in lowest terms.  Inputs are carried as integers:                   *)
(*   time                  seconds                                         *)
(*   h2, air               1/100 lpm                                       *)
(*   t2, tc3, tc1          1/10 degree C                                   *)
(*   target_slope          1/10 degree C per minute (slider step 0.1)      *)
(*   max_stack_dt, max_ab_dt, min_air_flow   whole units (integer widgets) *)
(* round(x, n) of a float whose decimal expansion is an exact tie at digit *)
(* n depends on the binary representation error of x, so a tie is rounded  *)
(* in either direction (parameter tie).                                    *)
(***************************************************************************)
EXTENDS Integers, Sequences, FiniteSets, TLC

VARIABLES history, config_log, last_config, widgets, result, call, ncalls, submitted

vars == <<history, config_log, last_config, widgets, result, call, ncalls, submitted>>

(***************************************************************************)
(* Exact rational arithmetic standing for the float arithmetic of the code *)
(***************************************************************************)
Abs(x) == IF x < 0 THEN -x ELSE x

RECURSIVE GCD(_, _)
GCD(a, b) == IF b = 0 THEN a ELSE GCD(b, a % b)

Norm(r) ==
    LET n == r[1]
        d == r[2]
        g == GCD(Abs(n), Abs(d))
        s == IF d < 0 THEN -1 ELSE 1
    IN  <<(s * n) \div g, (s * d) \div g>>

Rat(n, d) == Norm(<<n, d>>)
Zero == <<0, 1>>
RAdd(a, b) == Norm(<<a[1] * b[2] + b[1] * a[2], a[2] * b[2]>>)
RSub(a, b) == Norm(<<a[1] * b[2] - b[1] * a[2], a[2] * b[2]>>)
RMul(a, b) == Norm(<<a[1] * b[1], a[2] * b[2]>>)
RDiv(a, b) == Norm(<<a[1] * b[2], a[2] * b[1]>>)
RLe(a, b) == a[1] * b[2] <= b[1] * a[2]
RLt(a, b) == a[1] * b[2] < b[1] * a[2]
RMax(a, b) == IF RLt(a, b) THEN b ELSE a
RMin(a, b) == IF RLt(b, a) THEN b ELSE a
RAbs(a) == <<Abs(a[1]), a[2]>>

RECURSIVE Pow10(_)
Pow10(n) == IF n = 0 THEN 1 ELSE 10 * Pow10(n - 1)

\* round(x, ndigits): nearest multiple of 10^-ndigits; an exact decimal tie
\* goes down (tie = 0) or up (tie = 1).
round(x, ndigits, tie) ==
    LET p == Pow10(ndigits)
        n == x[1] * p
        d == x[2]
        q == n \div d
        r == n % d
        k == IF 2 * r < d THEN q
             ELSE IF 2 * r > d THEN q + 1
             ELSE q + tie
    IN  Rat(k, p)

\* Conversions from the integer units of the inputs.
Lpm(c) == Rat(c, 100)
Deg(t) == Rat(t, 10)
Slope(s) == Rat(s, 10)
Whole(i) == Rat(i, 1)

(***************************************************************************)
(* calculate_next_step                                                     *)
(***************************************************************************)
MsgWaiting == "Waiting"
MsgStable == "Stable"
MsgAfterburner == "AfterburnerProtection"
MsgStack == "StackProtection"

H2_GAIN == Rat(20, 100)

\* dt = (curr['time'] - last['time']).total_seconds() / 60.0
elapsed_minutes(curr, last) == Rat(curr.time - last.time, 60)

\* if dt <= 0: return ...
deferred(dt) == RLe(dt, Zero)

actual_slope(curr, last, dt) == RDiv(RSub(Deg(curr.tc3), Deg(last.tc3)), dt)

stack_dt(curr) == RAbs(RSub(Deg(curr.tc3), Deg(curr.t2)))

ab_dt(curr) == RSub(Deg(curr.tc1), Deg(curr.tc3))

\* Mutant: the slope error multiplied by the gain instead of divided by it.
track_h2_times_gain(curr, w, slope) ==
    LET slope_error == RSub(Slope(w.target_slope), slope)
        h2_adjustment == RMul(slope_error, H2_GAIN)
    IN  RMax(Zero, RAdd(Lpm(curr.h2), h2_adjustment))

\* slope_error, h2_adjustment and the floor at zero
track_h2(curr, w, slope) ==
    LET slope_error == RSub(Slope(w.target_slope), slope)
        h2_adjustment == RDiv(slope_error, H2_GAIN)
    IN  RMax(Zero, RAdd(Lpm(curr.h2), h2_adjustment))

\* if ab_dt > (max_ab_dt - 10)
ab_protect(abdt, w) == RLt(Whole(w.max_ab_dt - 10), abdt)

\* Mutant: the afterburner rule leaves the fuel setpoint uncapped.
cap_h2_uncapped(suggested_h2, curr) == suggested_h2

\* suggested_h2 = min(suggested_h2, curr['h2'] * 0.95)
cap_h2(suggested_h2, curr) == RMin(suggested_h2, RMul(Lpm(curr.h2), Rat(95, 100)))

\* if stack_dt > (max_stack_dt - 15)
stack_protect(stackdt, w) == RLt(Whole(w.max_stack_dt - 15), stackdt)

\* Mutant: the air setpoint is not floored at min_air_flow.
floor_air_unfloored(suggested_air, w) == suggested_air

\* max(suggested_air, min_air_flow)
floor_air(suggested_air, w) == RMax(suggested_air, Whole(w.min_air_flow))

\* suggested_air += 50
ab_air(suggested_air) == RAdd(suggested_air, Whole(50))

\* Mutant: the stack rule adds 50 instead of 100.
stack_air_fifty(suggested_air) == RAdd(suggested_air, Whole(50))

\* suggested_air += 100
stack_air(suggested_air) == RAdd(suggested_air, Whole(100))

\* Mutant: the deferred outcome reports the flows rounded like a normal step.
deferred_result_rounded(curr) ==
    [next_h2 |-> round(Lpm(curr.h2), 2, 0), next_air |-> round(Lpm(curr.air), 1, 0),
     msg |-> MsgWaiting, a_slope |-> Zero]

\* return curr['h2'], curr['air'], "...", 0
deferred_result(curr) ==
    [next_h2 |-> Lpm(curr.h2), next_air |-> Lpm(curr.air),
     msg |-> MsgWaiting, a_slope |-> Zero]

calculate_next_step(curr, last, w, tieH, tieA) ==
    LET dt == elapsed_minutes(curr, last)
    IN  IF deferred(dt)
        THEN deferred_result(curr)
        ELSE
        LET slope == actual_slope(curr, last, dt)
            fires1 == ab_protect(ab_dt(curr), w)
            fires2 == stack_protect(stack_dt(curr), w)
            h2_a == track_h2(curr, w, slope)
            h2_b == IF fires1 THEN cap_h2(h2_a, curr) ELSE h2_a
            air_0 == Lpm(curr.air)
            air_1 == IF fires1 THEN ab_air(air_0) ELSE air_0
            air_2 == IF fires2 THEN stack_air(air_1) ELSE air_1
            msg_1 == IF fires1 THEN MsgAfterburner ELSE MsgStable
            msg_2 == IF fires2 THEN MsgStack ELSE msg_1
        IN  [next_h2 |-> round(h2_b, 2, tieH),
             next_air |-> round(floor_air(air_2, w), 1, tieA),
             msg |-> msg_2, a_slope |-> slope]

(***************************************************************************)
(* Session state and the sidebar section                                   *)
(***************************************************************************)
\* The script's initial session state: history = [], config_log = [],
\* last_config = {}.
EmptyDict == [k \in {} |-> 0]

None == "None"

\* Widget defaults: slider 0.7, number inputs 100, 170, 500.
DefaultWidgets ==
    [target_slope |-> 7, max_stack_dt |-> 100, max_ab_dt |-> 170, min_air_flow |-> 500]

\* Form defaults: 10.0, 800.0, 300.0, 280.0, 430.0.
DefaultForm == [h2 |-> 1000, air |-> 80000, t2 |-> 3000, tc3 |-> 2800, tc1 |-> 4300]

\* Keys of current_config, in the dict's insertion order.
KeyOrder == <<"target_slope", "max_stack_dt", "max_ab_dt">>

current_config(w) ==
    [k \in {KeyOrder[i] : i \in 1..Len(KeyOrder)} |->
        CASE k = "target_slope" -> w.target_slope
          [] k = "max_stack_dt" -> w.max_stack_dt
          [] k = "max_ab_dt" -> w.max_ab_dt]

\* dict.get(key)
dict_get(d, key) == IF key \in DOMAIN d THEN d[key] ELSE None

\* current_config[key] != last_config.get(key)
differs(cur, last, key) == key \notin DOMAIN last \/ cur[key] # last[key]

SecondsPerDay == 86400

\* datetime.now().strftime("%H:%M:%S"): the time of day, the date dropped.
strftime(now) == now % SecondsPerDay

\* Mutant: the old and the new value of a change record are swapped.
change_record_swapped(cur, last, key, now) ==
    [time |-> strftime(now), field |-> key,
     old_value |-> cur[key], new_value |-> dict_get(last, key)]

change_record(cur, last, key, now) ==
    [time |-> strftime(now), field |-> key,
     old_value |-> dict_get(last, key), new_value |-> cur[key]]

\* for key in current_config: if changed: config_log.insert(0, {...})
RECURSIVE log_changes(_, _, _, _, _)
log_changes(log, cur, last, now, i) ==
    IF i > Len(KeyOrder) THEN log
    ELSE LET key == KeyOrder[i]
             log1 == IF differs(cur, last, key)
                     THEN <<change_record(cur, last, key, now)>> \o log
                     ELSE log
         IN  log_changes(log1, cur, last, now, i + 1)

\* if last_config and current_config != last_config: ...
sidebar_log(log, last, w, now) ==
    LET cur == current_config(w)
    IN  IF last # EmptyDict /\ cur # last
        THEN log_changes(log, cur, last, now, 1)
        ELSE log

(***************************************************************************)
(* The submission handler                                                  *)
(***************************************************************************)
MaxHistory == 20

\* Mutant: the newest sample is dropped on overflow instead of the oldest.
append_evict_newest(h, e) ==
    LET h1 == Append(h, e)
    IN  IF Len(h1) > MaxHistory THEN SubSeq(h1, 1, Len(h1) - 1) ELSE h1

\* Mutant: the previous sample is read from the head of the history.
last_entry_head(h) == h[1]

\* history.append(current_entry); if len(history) > 20: history.pop(0)
append_evict(h, e) ==
    LET h1 == Append(h, e)
    IN  IF Len(h1) > MaxHistory THEN Tail(h1) ELSE h1

\* last_entry = history[-1]
last_entry(h) == h[Len(h)]

current_entry(form, now) ==
    [time |-> now, h2 |-> form.h2, air |-> form.air,
     t2 |-> form.t2, tc3 |-> form.tc3, tc1 |-> form.tc1]

NoResult == [shown |-> FALSE]
NoCall == [made |-> FALSE]

Init ==
    /\ history = <<>>
    /\ config_log = <<>>
    /\ last_config = EmptyDict
    /\ widgets = DefaultWidgets
    /\ result = NoResult
    /\ call = NoCall
    /\ ncalls = 0
    /\ submitted = <<>>

\* The sidebar section, run by every execution of the script.
Sidebar(w, now) ==
    /\ last_config = EmptyDict => w = DefaultWidgets
    /\ widgets' = w
    /\ config_log' = sidebar_log(config_log, last_config, w, now)
    /\ last_config' = current_config(w)

\* A run of the script with the form button not pressed (page load, or a
\* limit widget changed).
Rerun(w, now) ==
    /\ Sidebar(w, now)
    /\ result' = NoResult
    /\ call' = NoCall
    /\ UNCHANGED <<history, ncalls, submitted>>

\* A run of the script with the form button pressed.
Submit(w, now, form, tieH, tieA) ==
    /\ last_config # EmptyDict
    /\ Sidebar(w, now)
    /\ LET entry == current_entry(form, now)
       IN  /\ IF history # <<>>
              THEN /\ result' = [shown |-> TRUE,
                                 out |-> calculate_next_step(entry, last_entry(history),
                                                             w, tieH, tieA)]
                   /\ call' = [made |-> TRUE, curr |-> entry,
                               last |-> last_entry(history), w |-> w]
                   /\ ncalls' = ncalls + 1
              ELSE /\ result' = NoResult
                   /\ call' = NoCall
                   /\ UNCHANGED ncalls
           /\ history' = append_evict(history, entry)
           /\ submitted' = Append(submitted, entry)

Ties == {0, 1}

(***************************************************************************)
(* Spec: limit changes and a few submissions                               *)
(***************************************************************************)
MaxLogLen == 3
MaxSubmits == 2

Widgets ==
    [target_slope : {7, 9}, max_stack_dt : {100, 90},
     max_ab_dt : {170}, min_air_flow : {500, 600}]

Forms == {DefaultForm, [DefaultForm EXCEPT !.tc3 = 2805, !.tc1 = 4400]}

Clock == {0, 60}

LimitChange ==
    /\ Len(config_log) < MaxLogLen
    /\ \E w \in Widgets \cup {DefaultWidgets}, now \in Clock : Rerun(w, now)

FormSubmit ==
    /\ Len(config_log) < MaxLogLen
    /\ Len(submitted) < MaxSubmits
    /\ \E w \in Widgets, now \in Clock, form \in Forms, tieH \in Ties, tieA \in Ties :
          Submit(w, now, form, tieH, tieA)

Next == LimitChange \/ FormSubmit

Spec == Init /\ [][Next]_vars

(***************************************************************************)
(* SpecStep: one control step on every pair of samples and limits drawn    *)
(* from the sets below.  The initial states are the states of a loaded     *)
(* page with one sample stored; the step is the next submission.           *)
(***************************************************************************)
StepWidgets ==
    [target_slope : {3, 7, 15}, max_stack_dt : {100},
     max_ab_dt : {170, 160}, min_air_flow : {500, 1000}]

StepForms ==
    [h2 : {0, 1000, 1007, 1010}, air : {40000, 80000, 80004, 80005},
     t2 : {3000, 3800}, tc3 : {2800, 2805, 2900}, tc1 : {4300, 4400, 4450}]

StepLastForms == {DefaultForm, [DefaultForm EXCEPT !.tc3 = 2700]}

StepLastTimes == {0, 60}

StepNow == {0, 7, 60}

InitStep ==
    /\ \E form \in StepLastForms, t \in StepLastTimes :
          /\ history = <<current_entry(form, t)>>
          /\ submitted = <<current_entry(form, t)>>
    /\ config_log = <<>>
    /\ last_config = current_config(DefaultWidgets)
    /\ widgets = DefaultWidgets
    /\ result = NoResult
    /\ call = NoCall
    /\ ncalls = 0

StepSubmit ==
    /\ ~call.made
    /\ \E w \in StepWidgets, now \in StepNow, form \in StepForms,
          tieH \in Ties, tieA \in Ties :
          Submit(w, now, form, tieH, tieA)

NextStep == StepSubmit

SpecStep == InitStep /\ [][NextStep]_vars

(***************************************************************************)
(* SpecStore: long runs of submissions.  The clock advances by one tick    *)
(* per submission, except that it repeats or steps back a bounded number   *)
(* of times.                                                               *)
(***************************************************************************)
MaxSubmissions == 25
MaxClockFaults == 1

Faults(s) == Cardinality({i \in 1..(Len(s) - 1) : s[i + 1].time <= s[i].time})

StoreClock(s) ==
    IF s = <<>> THEN {600}
    ELSE LET t == s[Len(s)].time
         IN  IF Faults(s) < MaxClockFaults THEN {t - 60, t, t + 60} ELSE {t + 60}

StoreRerun == Rerun(widgets, 0)

StoreSubmit ==
    /\ Len(submitted) < MaxSubmissions
    /\ \E now \in StoreClock(submitted), tieH \in Ties, tieA \in Ties :
          Submit(widgets, now, DefaultForm, tieH, tieA)

NextStore == StoreRerun \/ StoreSubmit

SpecStore == Init /\ [][NextStore]_vars

(***************************************************************************)
(* Properties of the control step (SpecStep)                               *)
(***************************************************************************)
PositiveDt == call.made /\ call.curr.time > call.last.time
NonPositiveDt == call.made /\ call.curr.time <= call.last.time

\* ab_dt = tc1 - tc3 > max_ab_dt - 10, in tenths of a degree
AbWithinMargin == call.made /\ call.curr.tc1 - call.curr.tc3 > 10 * (call.w.max_ab_dt - 10)

\* stack_dt = |tc3 - t2| > max_stack_dt - 15, in tenths of a degree
StackWithinMargin ==
    call.made /\ Abs(call.curr.tc3 - call.curr.t2) > 10 * (call.w.max_stack_dt - 15)

H2Cap == RMul(Lpm(call.curr.h2), Rat(95, 100))
HalfCent == Rat(5, 1000)
HalfTenth == Rat(5, 100)

\* C1 (as stated): whatever the elapsed time, next_h2 >= 0 and
\* next_air >= min_air_flow.
C1_FloorAlways ==
    call.made =>
        /\ RLe(Zero, result.out.next_h2)
        /\ RLe(Whole(call.w.min_air_flow), result.out.next_air)

\* C1 (amended): for every control step with positive elapsed time on samples
\* with non-negative flows, next_h2 >= 0 and next_air >= min_air_flow.
C1_FloorWhenPositiveDt ==
    PositiveDt =>
        /\ RLe(Zero, result.out.next_h2)
        /\ RLe(Whole(call.w.min_air_flow), result.out.next_air)

C1_Witness ==
    /\ PositiveDt
    /\ call.curr.h2 > 0
    /\ result.out.next_h2 = Zero
    /\ call.curr.air < 100 * call.w.min_air_flow
    /\ result.out.next_air = Whole(call.w.min_air_flow)

\* C2: with current.timestamp <= previous.timestamp the step returns the
\* current flows unchanged, the waiting status and observed_slope 0,
\* whatever the temperatures and limits.
C2_Deferral ==
    NonPositiveDt =>
        /\ result.shown
        /\ result.out.next_h2 = Lpm(call.curr.h2)
        /\ result.out.next_air = Lpm(call.curr.air)
        /\ result.out.msg = MsgWaiting
        /\ result.out.a_slope = Zero

C2_Witness ==
    /\ call.made
    /\ call.curr.time < call.last.time
    /\ AbWithinMargin
    /\ StackWithinMargin
    /\ call.curr.air = 80004
    /\ call.curr.air < 100 * call.w.min_air_flow
    /\ result.out.next_air = Lpm(80004)
    /\ result.out.msg = MsgWaiting

ExampleScenario ==
    /\ call.made
    /\ call.last = [time |-> 0, h2 |-> 1000, air |-> 80000,
                    t2 |-> 3000, tc3 |-> 2800, tc1 |-> 4300]
    /\ call.curr = [time |-> 60, h2 |-> 1000, air |-> 80000,
                    t2 |-> 3000, tc3 |-> 2805, tc1 |-> 4400]
    /\ call.w = [target_slope |-> 7, max_stack_dt |-> 100,
                 max_ab_dt |-> 170, min_air_flow |-> 500]

\* C3 (as stated): the example scenario returns next_h2 = 9.5,
\* next_air = 850.0, status AfterburnerProtection, observed_slope = 0.5.
C3_ExampleAsStated ==
    ExampleScenario =>
        result.out = [next_h2 |-> Rat(95, 10), next_air |-> Whole(850),
                      msg |-> MsgAfterburner, a_slope |-> Rat(1, 2)]

\* C3 (amended): the example scenario returns next_h2 = 11.0,
\* next_air = 800.0, status Stable, observed_slope = 0.5: ab_dt = 159.5 is not
\* above max_ab_dt - 10 = 160, so neither protection rule fires.
C3_ExampleAsComputed ==
    ExampleScenario =>
        result.out = [next_h2 |-> Whole(11), next_air |-> Whole(800),
                      msg |-> MsgStable, a_slope |-> Rat(1, 2)]

C3_Witness == ExampleScenario /\ result.shown /\ ~AbWithinMargin

\* C4 (as stated): with positive elapsed time and ab_dt > max_ab_dt - 10,
\* next_h2 <= current.h2_flow * 0.95 and next_air >= current.air_flow + 50.
C4_AfterburnerExact ==
    (PositiveDt /\ AbWithinMargin) =>
        /\ RLe(result.out.next_h2, H2Cap)
        /\ RLe(RAdd(Lpm(call.curr.air), Whole(50)), result.out.next_air)

\* C4 (amended): with positive elapsed time and ab_dt > max_ab_dt - 10, the
\* reported next_h2 is the 2-decimal rounding of a value <= h2_flow * 0.95
\* (at most 0.005 above the cap) and the reported next_air is the 1-decimal
\* rounding of a value >= air_flow + 50 (at most 0.05 below it).
C4_AfterburnerRounded ==
    (PositiveDt /\ AbWithinMargin) =>
        /\ RLe(result.out.next_h2, RAdd(H2Cap, HalfCent))
        /\ RLe(RSub(RAdd(Lpm(call.curr.air), Whole(50)), HalfTenth), result.out.next_air)

C4_Witness ==
    /\ PositiveDt
    /\ call.curr.tc1 - call.curr.tc3 = 10 * (call.w.max_ab_dt - 5)
    /\ ~StackWithinMargin
    /\ result.out.msg = MsgAfterburner
    /\ RLt(H2Cap, result.out.next_h2)
    /\ RLt(result.out.next_air, RAdd(Lpm(call.curr.air), Whole(50)))

\* C5 (as stated): with positive elapsed time and both protection conditions,
\* next_air >= current.air_flow + 150, the fuel cap applies and the status is
\* StackProtection.
C5_BothExact ==
    (PositiveDt /\ AbWithinMargin /\ StackWithinMargin) =>
        /\ RLe(RAdd(Lpm(call.curr.air), Whole(150)), result.out.next_air)
        /\ RLe(result.out.next_h2, H2Cap)
        /\ result.out.msg = MsgStack

\* C5 (amended): with positive elapsed time and both protection conditions,
\* the reported next_air is the 1-decimal rounding of a value
\* >= air_flow + 150 (at most 0.05 below it), the reported next_h2 is the
\* 2-decimal rounding of a value <= h2_flow * 0.95 (at most 0.005 above it),
\* and the status is StackProtection.
C5_BothRounded ==
    (PositiveDt /\ AbWithinMargin /\ StackWithinMargin) =>
        /\ RLe(RSub(RAdd(Lpm(call.curr.air), Whole(150)), HalfTenth), result.out.next_air)
        /\ RLe(result.out.next_h2, RAdd(H2Cap, HalfCent))
        /\ result.out.msg = MsgStack

C5_Witness ==
    /\ PositiveDt
    /\ AbWithinMargin
    /\ StackWithinMargin
    /\ result.out.msg = MsgStack
    /\ call.curr.air = 80004
    /\ result.out.next_air = Whole(950)
    /\ call.curr.h2 = 1000
    /\ result.out.next_h2 = Rat(95, 10)

(***************************************************************************)
(* Properties of the Sample Store (SpecStore)                              *)
(***************************************************************************)
Min(a, b) == IF a < b THEN a ELSE b

\* C6: the store holds min(n, 20) samples after n submissions, and they are
\* the most recently submitted ones in submission order.
C6_BoundedFifo ==
    LET n == Len(submitted)
        k == Min(n, 20)
    IN  /\ Len(history) = k
        /\ history = SubSeq(submitted, n - k + 1, n)

C6_Witness ==
    /\ Len(submitted) = 25
    /\ Len(history) = 20
    /\ history[1] = submitted[6]
    /\ history[1] # submitted[1]

\* C9: the samples in the store are ordered by non-decreasing timestamp from
\* head to tail.
C9_TimestampOrder ==
    \A i \in 1..(Len(history) - 1) : history[i].time <= history[i + 1].time

\* C10: the first submission evaluates no control step and shows no result;
\* the k-th submission (k >= 2) evaluates exactly one control step, on
\* (sample k, sample k-1); every submitted sample is at the tail of the store
\* after its submission.
C10_StepPerSubmission ==
    LET n == Len(submitted)
    IN  /\ ncalls = (IF n = 0 THEN 0 ELSE n - 1)
        /\ n <= 1 => (~call.made /\ ~result.shown)
        /\ call.made =>
              /\ result.shown
              /\ call.curr = submitted[n]
              /\ call.last = submitted[n - 1]
        /\ n >= 1 => history[Len(history)] = submitted[n]

C10_Witness ==
    /\ Len(submitted) = 22
    /\ Len(history) = 20
    /\ call.made
    /\ call.curr.time <= call.last.time
    /\ result.out.msg = MsgWaiting
    /\ ncalls = 21

(***************************************************************************)
(* Properties of the Boundary-Condition Log (Spec)                         *)
(***************************************************************************)
OnlyTargetSlopeChanges ==
    /\ last_config # EmptyDict
    /\ widgets'.target_slope # widgets.target_slope
    /\ widgets'.max_stack_dt = widgets.max_stack_dt
    /\ widgets'.max_ab_dt = widgets.max_ab_dt
    /\ widgets'.min_air_flow = widgets.min_air_flow

NoLimitChanges == last_config # EmptyDict /\ widgets' = widgets

\* C7: once a configuration is recorded, an update that changes only
\* target_slope prepends exactly one record (field target_slope, the old and
\* the new value) to the log, and an update that changes no field leaves the
\* log unchanged.
C7_LogFidelity ==
    [][/\ OnlyTargetSlopeChanges =>
            /\ Len(config_log') = Len(config_log) + 1
            /\ Tail(config_log') = config_log
            /\ config_log'[1].field = "target_slope"
            /\ config_log'[1].old_value = widgets.target_slope
            /\ config_log'[1].new_value = widgets'.target_slope
       /\ NoLimitChanges => config_log' = config_log]_vars

C7_Witness ==
    /\ Len(config_log) = 2
    /\ config_log[1].field = "target_slope"
    /\ config_log[1].old_value = 7
    /\ config_log[1].new_value = 9
    /\ widgets = [DefaultWidgets EXCEPT !.target_slope = 9, !.max_stack_dt = 90]
    /\ config_log[2].field = "max_stack_dt"

LimitFields == {"target_slope", "max_stack_dt", "max_ab_dt", "min_air_flow"}

\* C8: on a configuration update, every one of the four limit fields whose
\* value differs from the previous configuration gets one change record
\* prepended to the log.
C8_AllFourFieldsLogged ==
    [][last_config # EmptyDict =>
          \A f \in LimitFields :
              widgets'[f] # widgets[f] =>
                  \E i \in 1..(Len(config_log') - Len(config_log)) :
                      /\ config_log'[i].field = f
                      /\ config_log'[i].old_value = widgets[f]
                      /\ config_log'[i].new_value = widgets'[f]]_vars

====
